---- MODULE Spec2Model ----
(***************************************************************************)
(* TPIMS truck-parking poller (src/poller.py): the feed fetch loop, the    *)
(* two normalizers parse_standard and parse_indiana, and the orchestrator  *)
(* main with its exit status and its single bulk insert.                   *)
(*                                                                         *)
(* Decoded JSON is a tagged value; a Python str is a sequence of           *)
(* one-character strings so that int(), str(), split and len can be        *)
(* computed the way Python computes them; a Python dict is a function      *)
(* whose domain is the set of keys present.                                *)
(***************************************************************************)
EXTENDS Integers, Sequences, FiniteSets, TLC

VARIABLES pc, clock, poll_str, feed_idx, raw, errors, fetched, served,
          all_rows, sink_calls, sink_batch, bq_errors, exit_status, raised,
          n_pc, n_kind, n_static, n_dynamic, n_result

vars == <<pc, clock, poll_str, feed_idx, raw, errors, fetched, served,
          all_rows, sink_calls, sink_batch, bq_errors, exit_status, raised,
          n_pc, n_kind, n_static, n_dynamic, n_result>>

mainVars == <<pc, clock, poll_str, feed_idx, raw, errors, fetched, served,
              all_rows, sink_calls, sink_batch, bq_errors, exit_status, raised>>

normVars == <<n_pc, n_kind, n_static, n_dynamic, n_result>>

---------------------------------------------------------------------------
(* Bounds of the model                                                     *)

MaxClock == 3

MaxRecords == 2

TicksPerSecond == 2

---------------------------------------------------------------------------
(* Decoded JSON values (json.loads) and Python's None                      *)

JNull == [t |-> "null"]

JBool(b) == [t |-> "bool", b |-> b]

JInt(i) == [t |-> "int", i |-> i]

JFloat(n) == [t |-> "float", x10 |-> n]

JStr(s) == [t |-> "str", s |-> s]

JList(l) == [t |-> "list", l |-> l]

JDict(d) == [t |-> "dict", d |-> d]

EmptyDict == [k \in {} |-> JNull]

EmptyStr == JStr(<<>>)

IsDict(v) == v.t = "dict"

IsList(v) == v.t = "list"

IsStr(v) == v.t = "str"

(* dict.get(key, default) *)
Get(d, k, default) == IF k \in DOMAIN d THEN d[k] ELSE default

(* bool(v): the truth value Python gives a decoded JSON value *)
PyTruthy(v) ==
  CASE v.t = "null" -> FALSE
    [] v.t = "bool" -> v.b
    [] v.t = "int" -> v.i # 0
    [] v.t = "float" -> v.x10 # 0
    [] v.t = "str" -> v.s # <<>>
    [] v.t = "list" -> v.l # <<>>
    [] v.t = "dict" -> DOMAIN v.d # {}

(* hash(v) succeeds: lists and dicts are unhashable (TypeError as dict key) *)
Hashable(v) == v.t \notin {"list", "dict"}

IsNumeric(v) == v.t \in {"bool", "int", "float"}

NumX10(v) ==
  CASE v.t = "bool" -> (IF v.b THEN 10 ELSE 0)
    [] v.t = "int" -> v.i * 10
    [] v.t = "float" -> v.x10

(* equality of dict keys: True == 1 == 1.0 are one key *)
PyKeyEq(a, b) ==
  IF IsNumeric(a) /\ IsNumeric(b) THEN NumX10(a) = NumX10(b) ELSE a = b

---------------------------------------------------------------------------
(* int(v) and str(v)                                                       *)

Digits == <<"0", "1", "2", "3", "4", "5", "6", "7", "8", "9">>

IsDigit(c) == \E i \in 1..10 : Digits[i] = c

DigitVal(c) == (CHOOSE i \in 1..10 : Digits[i] = c) - 1

IsSpace(c) == c \in {" ", "\t", "\n"}

RECURSIVE LStrip(_)
LStrip(s) == IF s # <<>> /\ IsSpace(Head(s)) THEN LStrip(Tail(s)) ELSE s

RECURSIVE RStrip(_)
RStrip(s) ==
  IF s # <<>> /\ IsSpace(s[Len(s)]) THEN RStrip(SubSeq(s, 1, Len(s) - 1)) ELSE s

RECURSIVE DigitsVal(_, _)
DigitsVal(s, acc) ==
  IF s = <<>> THEN acc
  ELSE IF Head(s) = "_" THEN DigitsVal(Tail(s), acc)
  ELSE DigitsVal(Tail(s), acc * 10 + DigitVal(Head(s)))

(* the digit part of an int literal: digits, single underscores between them *)
IsDigitRun(s) ==
  /\ s # <<>>
  /\ IsDigit(s[1]) /\ IsDigit(s[Len(s)])
  /\ \A i \in 1..Len(s) : IsDigit(s[i]) \/ s[i] = "_"
  /\ \A i \in 1..(Len(s) - 1) : ~(s[i] = "_" /\ s[i + 1] = "_")

(* int(str): [ok, v]; ok = FALSE is ValueError *)
ParseIntStr(s) ==
  LET b == RStrip(LStrip(s))
      signed == b # <<>> /\ Head(b) \in {"+", "-"}
      body == IF signed THEN Tail(b) ELSE b
  IN IF IsDigitRun(body)
     THEN [ok |-> TRUE,
           v |-> IF signed /\ Head(b) = "-" THEN 0 - DigitsVal(body, 0)
                 ELSE DigitsVal(body, 0)]
     ELSE [ok |-> FALSE, v |-> 0]

(* int(float) truncates towards zero *)
TruncX10(n) == IF n >= 0 THEN n \div 10 ELSE 0 - ((0 - n) \div 10)

(* try: x = int(x)  except (TypeError, ValueError): x = None *)
CoerceInt(v) ==
  CASE v.t = "bool" -> JInt(IF v.b THEN 1 ELSE 0)
    [] v.t = "int" -> v
    [] v.t = "float" -> JInt(TruncX10(v.x10))
    [] v.t = "str" -> (IF ParseIntStr(v.s).ok THEN JInt(ParseIntStr(v.s).v) ELSE JNull)
    [] OTHER -> JNull

RECURSIVE NatToStr(_)
NatToStr(n) ==
  IF n < 10 THEN <<Digits[n + 1]>>
  ELSE NatToStr(n \div 10) \o <<Digits[(n % 10) + 1]>>

IntToStr(n) == IF n < 0 THEN <<"-">> \o NatToStr(0 - n) ELSE NatToStr(n)

AbsX10(n) == IF n < 0 THEN 0 - n ELSE n

(* str(v) of a scalar JSON value *)
PyStr(v) ==
  CASE v.t = "null" -> <<"N", "o", "n", "e">>
    [] v.t = "bool" -> (IF v.b THEN <<"T", "r", "u", "e">>
                        ELSE <<"F", "a", "l", "s", "e">>)
    [] v.t = "int" -> IntToStr(v.i)
    [] v.t = "float" -> (IF v.x10 < 0 THEN <<"-">> ELSE <<>>)
                         \o NatToStr(AbsX10(v.x10) \div 10) \o <<".">>
                         \o NatToStr(AbsX10(v.x10) % 10)
    [] v.t = "str" -> v.s

---------------------------------------------------------------------------
(* parse_standard                                                          *)

Max(S) == CHOOSE m \in S : \A n \in S : n <= m

(* d.get('siteId', '') of a record of either list *)
SiteKey(rec) == Get(rec.d, "siteId", EmptyStr)

(* dyn_lookup = {d.get('siteId', ''): d for d in dynamic_list} raises when a
   record has no .get (AttributeError) or an unhashable key (TypeError) *)
DynLookupRaises(dynamic_list) ==
  \E i \in 1..Len(dynamic_list) :
     ~IsDict(dynamic_list[i]) \/ ~Hashable(SiteKey(dynamic_list[i]))

(* dyn_lookup.get(sid, {}): a later record with the same key replaces an
   earlier one *)
DynLookupGet(dynamic_list, sid) ==
  LET hits == {i \in 1..Len(dynamic_list) : PyKeyEq(SiteKey(dynamic_list[i]), sid)}
  IN IF hits = {} THEN EmptyDict ELSE dynamic_list[Max(hits)].d

(* loc after lines 50-54 *)
NormLoc(s) ==
  LET loc == Get(s.d, "location", JDict(EmptyDict))
  IN IF IsList(loc) /\ loc.l # <<>> THEN loc.l[1]
     ELSE IF ~IsDict(loc) THEN JDict(EmptyDict)
     ELSE loc

(* the loop body raises: s.get on a non-mapping, an unhashable sid in
   dyn_lookup.get, loc.get on a non-mapping first element *)
StdRecordRaises(s) ==
  \/ ~IsDict(s)
  \/ ~Hashable(SiteKey(s))
  \/ ~IsDict(NormLoc(s))

StdRow(state, s, dynamic_list) ==
  LET sid == SiteKey(s)
      loc == NormLoc(s).d
      dyn == DynLookupGet(dynamic_list, sid)
  IN [state |-> state,
      site_id |-> sid,
      name |-> Get(s.d, "name", EmptyStr),
      highway |-> Get(s.d, "relevantHighway", EmptyStr),
      direction |-> Get(s.d, "directionOfTravel", EmptyStr),
      latitude |-> Get(loc, "latitude", JNull),
      longitude |-> Get(loc, "longitude", JNull),
      capacity |-> CoerceInt(Get(s.d, "capacity", Get(dyn, "capacity", JNull))),
      available_spaces |-> CoerceInt(Get(dyn, "reportedAvailable", JNull)),
      trend |-> Get(dyn, "trend", EmptyStr),
      is_open |-> JStr(PyStr(Get(dyn, "open", EmptyStr))),
      trust_data |-> JStr(PyStr(Get(dyn, "trustData", EmptyStr))),
      source_timestamp |-> Get(dyn, "timeStamp", Get(s.d, "timeStamp", EmptyStr))]

(* (x or []) for a list or None *)
OrEmpty(v) == IF PyTruthy(v) THEN v.l ELSE <<>>

(* parse_standard(state, static_list, dynamic_list): ok = FALSE when the call
   raises, and then no rows are returned *)
parse_standard(state, static_list, dynamic_list) ==
  LET sl == OrEmpty(static_list)
      dl == OrEmpty(dynamic_list)
  IN IF DynLookupRaises(dl) \/ \E i \in 1..Len(sl) : StdRecordRaises(sl[i])
     THEN [ok |-> FALSE, rows |-> <<>>]
     ELSE [ok |-> TRUE, rows |-> [i \in 1..Len(sl) |-> StdRow(state, sl[i], dl)]]

---------------------------------------------------------------------------
(* parse_indiana                                                           *)

(* static_data.get('features', []) if isinstance(static_data, dict) else [] *)
Feats(static_data) ==
  IF IsDict(static_data) THEN Get(static_data.d, "features", JList(<<>>))
  ELSE JList(<<>>)

(* 'for feat in feats' over a non-list: None and numbers are not iterable
   (TypeError); a str or a dict iterates its characters or keys *)
IterRaises(feats) == feats.t \in {"null", "bool", "int", "float"}

IterItems(feats) ==
  CASE feats.t = "list" -> feats.l
    [] feats.t = "str" -> [i \in 1..Len(feats.s) |-> JStr(<<feats.s[i]>>)]
    [] feats.t = "dict" ->
         LET RECURSIVE KeysOf(_)
             KeysOf(S) == IF S = {} THEN <<>>
                          ELSE LET k == CHOOSE x \in S : TRUE
                               IN <<JStr(<<k>>)>> \o KeysOf(S \ {k})
         IN KeysOf(DOMAIN feats.d)
    [] OTHER -> <<>>

Props(feat) == Get(feat.d, "properties", JDict(EmptyDict))

Geo(feat) == Get(feat.d, "geometry", JDict(EmptyDict))

Coords(feat) == Get(Geo(feat).d, "coordinates", JList(<<JNull, JNull>>))

Tpims(feat) == Get(Props(feat).d, "tpims", JDict(EmptyDict))

Label(feat) == Get(Props(feat).d, "site_area_label", EmptyStr)

(* '-' in label *)
LabelInRaises(label) == label.t \in {"null", "bool", "int", "float"}

LabelHasDash(label) ==
  CASE label.t = "str" -> \E i \in 1..Len(label.s) : label.s[i] = "-"
    [] label.t = "list" -> \E i \in 1..Len(label.l) : label.l[i] = JStr(<<"-">>)
    [] label.t = "dict" -> "-" \in DOMAIN label.d
    [] OTHER -> FALSE

(* label.split('-')[0] *)
BeforeDash(s) ==
  LET first == CHOOSE i \in 1..Len(s) :
                 s[i] = "-" /\ \A j \in 1..(i - 1) : s[j] # "-"
  IN SubSeq(s, 1, first - 1)

(* len(coords) *)
LenRaises(coords) == coords.t \in {"null", "bool", "int", "float"}

PyLen(coords) ==
  CASE coords.t = "list" -> Len(coords.l)
    [] coords.t = "str" -> Len(coords.s)
    [] coords.t = "dict" -> Cardinality(DOMAIN coords.d)
    [] OTHER -> 0

(* coords[i] for i in {0, 1}, given len(coords) >= 2; a dict decoded from
   JSON has only str keys, so the subscript is a KeyError *)
CoordAt(coords, i) ==
  CASE coords.t = "list" -> coords.l[i + 1]
    [] coords.t = "str" -> JStr(<<coords.s[i + 1]>>)

FeatRaises(feat) ==
  \/ ~IsDict(feat)
  \/ ~IsDict(Props(feat))
  \/ ~IsDict(Geo(feat))
  \/ ~IsDict(Tpims(feat))
  \/ LabelInRaises(Label(feat))
  \/ LabelHasDash(Label(feat)) /\ ~IsStr(Label(feat))
  \/ LenRaises(Coords(feat))
  \/ Coords(feat).t = "dict" /\ PyLen(Coords(feat)) >= 2

(* lines 102-108 *)
IndianaAvail(v) ==
  LET a == CoerceInt(v)
  IN IF a # JNull /\ a.i < 0 THEN JNull ELSE a

(* line 111: status == 'open' / status == 'closed' *)
IndianaIsOpen(status) ==
  IF status = JStr(<<"o", "p", "e", "n">>) THEN JStr(<<"T", "r", "u", "e">>)
  ELSE IF status = JStr(<<"c", "l", "o", "s", "e", "d">>)
       THEN JStr(<<"F", "a", "l", "s", "e">>)
  ELSE EmptyStr

IndianaRow(feat) ==
  LET props == Props(feat).d
      coords == Coords(feat)
      tpims == Tpims(feat).d
      label == Label(feat)
  IN [state |-> "Indiana",
      site_id |-> Get(props, "site_label", Get(feat.d, "id", EmptyStr)),
      name |-> Get(props, "site_area_description",
                   Get(props, "site_area_location", EmptyStr)),
      highway |-> Get(tpims, "route", Get(props, "site_route", EmptyStr)),
      direction |-> IF LabelHasDash(label) THEN JStr(BeforeDash(label.s))
                    ELSE EmptyStr,
      latitude |-> IF PyLen(coords) >= 2 THEN CoordAt(coords, 1) ELSE JNull,
      longitude |-> IF PyLen(coords) >= 2 THEN CoordAt(coords, 0) ELSE JNull,
      capacity |-> CoerceInt(Get(tpims, "capacity", JNull)),
      available_spaces |-> IndianaAvail(Get(tpims, "spaces_available", JNull)),
      trend |-> EmptyStr,
      is_open |-> IndianaIsOpen(Get(props, "site_area_status", EmptyStr)),
      trust_data |-> EmptyStr,
      source_timestamp |-> Get(tpims, "last_data", EmptyStr)]

(* a normalizer that reads the features of the dynamic payload when it has some *)
parse_indiana_uses_dynamic(static_data, dynamic_data) ==
  LET src == IF IsDict(dynamic_data) /\ "features" \in DOMAIN dynamic_data.d
             THEN dynamic_data ELSE static_data
      feats == Feats(src)
      items == IterItems(feats)
  IN IF IterRaises(feats) \/ \E i \in 1..Len(items) : FeatRaises(items[i])
     THEN [ok |-> FALSE, rows |-> <<>>]
     ELSE [ok |-> TRUE, rows |-> [i \in 1..Len(items) |-> IndianaRow(items[i])]]

(* parse_indiana(static_data, dynamic_data): dynamic_data is never read *)
parse_indiana(static_data, dynamic_data) ==
  LET feats == Feats(static_data)
      items == IterItems(feats)
  IN IF IterRaises(feats) \/ \E i \in 1..Len(items) : FeatRaises(items[i])
     THEN [ok |-> FALSE, rows |-> <<>>]
     ELSE [ok |-> TRUE, rows |-> [i \in 1..Len(items) |-> IndianaRow(items[i])]]

---------------------------------------------------------------------------
(* Feed contents the model draws from                                      *)

sA == JStr(<<"A">>)

sB == JStr(<<"B">>)

s50 == JStr(<<"5", "0">>)

s12 == JStr(<<"1", "2">>)

sAbc == JStr(<<"a", "b", "c">>)

sOpen == JStr(<<"o", "p", "e", "n">>)

sClosed == JStr(<<"c", "l", "o", "s", "e", "d">>)

sTime == JStr(<<"t", "1">>)

sLabelDash == JStr(<<"N", "B", "-", "I", "9", "0">>)

sLabelPlain == JStr(<<"I", "9", "0">>)

LocGood == JDict([latitude |-> JFloat(415), longitude |-> JFloat(-880)])

StaticGoodA ==
  JDict([siteId |-> sA, name |-> JStr(<<"R">>), capacity |-> s50,
         location |-> LocGood, relevantHighway |-> JStr(<<"I", "8", "0">>),
         directionOfTravel |-> JStr(<<"E">>), timeStamp |-> sTime])

StaticListLocB ==
  JDict([siteId |-> sB, capacity |-> JInt(20), location |-> JList(<<LocGood>>)])

StaticBadLatB ==
  JDict([siteId |-> sB, location |-> JDict([latitude |-> sAbc, longitude |-> JNull])])

StaticNoId == JDict(EmptyDict)

StaticNullLocA == JDict([siteId |-> sA, location |-> JNull, capacity |-> sAbc])

StaticBadLocListA == JDict([siteId |-> sA, location |-> JList(<<JInt(5)>>)])

StaticRecords ==
  {StaticGoodA, StaticListLocB, StaticBadLatB, StaticNoId, StaticNullLocA,
   StaticBadLocListA, JNull}

DynGoodA ==
  JDict([siteId |-> sA, reportedAvailable |-> s12, open |-> JBool(TRUE),
         trustData |-> JBool(TRUE), trend |-> JStr(<<"F">>),
         capacity |-> JInt(60), timeStamp |-> sTime])

DynClosedA ==
  JDict([siteId |-> sA, reportedAvailable |-> JInt(-1), open |-> JBool(FALSE),
         trustData |-> JInt(1)])

DynNullOpenB == JDict([siteId |-> sB, open |-> JNull, reportedAvailable |-> sAbc])

DynStrOpenB == JDict([siteId |-> sB, open |-> sOpen, reportedAvailable |-> JFloat(37)])

DynNoId == JDict([reportedAvailable |-> JInt(0), open |-> JInt(1)])

DynamicRecords ==
  {DynGoodA, DynClosedA, DynNullOpenB, DynStrOpenB, DynNoId, sAbc}

FeatGood ==
  JDict([id |-> JStr(<<"f", "1">>),
         properties |-> JDict([site_label |-> JStr(<<"I", "N", "1">>),
                               site_area_description |-> JStr(<<"d">>),
                               site_area_label |-> sLabelDash,
                               site_area_status |-> sOpen,
                               site_route |-> JStr(<<"I", "-", "9", "0">>),
                               tpims |-> JDict([capacity |-> s50,
                                                spaces_available |-> JInt(5),
                                                route |-> sLabelPlain,
                                                last_data |-> sTime])]),
         geometry |-> JDict([coordinates |-> JList(<<JFloat(-861), JFloat(397)>>)])])

FeatClosed ==
  JDict([properties |-> JDict([site_area_status |-> sClosed,
                               site_area_label |-> sLabelPlain,
                               tpims |-> JDict([spaces_available |-> JInt(-1),
                                                capacity |-> JNull])]),
         geometry |-> JDict([coordinates |-> JList(<<JFloat(-861)>>)])])

FeatBadCoords ==
  JDict([properties |-> JDict([site_area_status |-> sAbc,
                               tpims |-> JDict([spaces_available |-> JInt(0)])]),
         geometry |-> JDict([coordinates |-> JList(<<sAbc, JFloat(397)>>)])])

FeatBare == JDict(EmptyDict)

FeatNullProps == JDict([properties |-> JNull])

FeatNullGeo == JDict([geometry |-> JNull])

FeatNullCoords == JDict([geometry |-> JDict([coordinates |-> JNull])])

FeatNullTpims == JDict([properties |-> JDict([tpims |-> JNull])])

FeatNullLabel == JDict([properties |-> JDict([site_area_label |-> JNull])])

Features ==
  {FeatGood, FeatClosed, FeatBadCoords, FeatBare, FeatNullProps, FeatNullGeo,
   FeatNullCoords, FeatNullTpims, FeatNullLabel, sAbc}

(* sequences over S of length at most n *)
SeqsUpTo(S, n) == UNION {[1..k -> S] : k \in 0..n}

Collection(feats) == JDict([type |-> sAbc, features |-> feats])

---------------------------------------------------------------------------
(* The normalizers on their own: inputs drawn, then one call               *)

StandardInputs(S) == {JNull} \cup {JList(l) : l \in SeqsUpTo(S, MaxRecords)}

IndianaInputs ==
  {JNull, JDict(EmptyDict), JList(<<FeatGood>>), Collection(JNull)}
    \cup {Collection(JList(l)) : l \in SeqsUpTo(Features, MaxRecords)}

NormIdleMain ==
  /\ pc = "off" /\ clock = 0 /\ poll_str = JNull /\ feed_idx = 0
  /\ raw = <<>> /\ errors = <<>> /\ fetched = <<>> /\ served = <<>>
  /\ all_rows = <<>> /\ sink_calls = 0 /\ sink_batch = <<>>
  /\ bq_errors = <<>> /\ exit_status = "none" /\ raised = FALSE

NormInit ==
  /\ NormIdleMain
  /\ n_pc = "input"
  /\ n_result = [ok |-> TRUE, rows |-> <<>>]
  /\ \/ /\ n_kind = "standard"
        /\ n_static \in StandardInputs(StaticRecords)
        /\ n_dynamic \in StandardInputs(DynamicRecords)
     \/ /\ n_kind = "indiana"
        /\ n_static \in IndianaInputs
        /\ n_dynamic \in {JNull, JList(<<DynGoodA>>)}

CallParseStandard ==
  /\ n_pc = "input" /\ n_kind = "standard"
  /\ n_result' = parse_standard("Illinois", n_static, n_dynamic)
  /\ n_pc' = "done"
  /\ UNCHANGED <<n_kind, n_static, n_dynamic>>
  /\ UNCHANGED mainVars

CallParseIndiana ==
  /\ n_pc = "input" /\ n_kind = "indiana"
  /\ n_result' = parse_indiana(n_static, n_dynamic)
  /\ n_pc' = "done"
  /\ UNCHANGED <<n_kind, n_static, n_dynamic>>
  /\ UNCHANGED mainVars

NormNext == CallParseStandard \/ CallParseIndiana

SpecNorm == NormInit /\ [][NormNext]_vars

---------------------------------------------------------------------------
(* main: one poll run                                                      *)

(* FEEDS.items() with each state's urls.items(), in iteration order *)
FeedOrder ==
  <<[state |-> "Illinois", feed_type |-> "dynamic"],
    [state |-> "Illinois", feed_type |-> "static"],
    [state |-> "Indiana", feed_type |-> "dynamic"],
    [state |-> "Indiana", feed_type |-> "static"],
    [state |-> "Kentucky", feed_type |-> "dynamic"],
    [state |-> "Kentucky", feed_type |-> "static"],
    [state |-> "Minnesota", feed_type |-> "dynamic"],
    [state |-> "Minnesota", feed_type |-> "static"]>>

NumFeeds == Len(FeedOrder)

FeedIds == 1..NumFeeds

(* raw[state][feed_type] *)
FeedIdx(state, feed_type) ==
  CHOOSE i \in FeedIds :
    FeedOrder[i].state = state /\ FeedOrder[i].feed_type = feed_type

StandardStates == <<"Illinois", "Kentucky", "Minnesota">>

(* a key of raw[state] not assigned yet *)
Unset == [t |-> "unset"]

(* fetch_json raised *)
FetchFailed == [t |-> "failed"]

(* what fetch_json can return for each URL *)
Payloads(i) ==
  CASE i = 1 -> {JList(<<DynGoodA, DynNullOpenB>>), JDict(EmptyDict)}
    [] i = 2 -> {JList(<<StaticGoodA, StaticBadLatB>>), JList(<<JNull>>), JList(<<>>)}
    [] i = 3 -> {JDict(EmptyDict), Collection(JList(<<FeatBadCoords>>))}
    [] i = 4 -> {Collection(JList(<<FeatGood, FeatClosed>>)),
                 Collection(JList(<<FeatNullProps>>)), Collection(JList(<<>>))}
    [] i = 5 -> {JList(<<DynClosedA>>)}
    [] i = 6 -> {JList(<<StaticListLocB>>)}
    [] i = 7 -> {JList(<<DynStrOpenB>>)}
    [] i = 8 -> {JList(<<StaticNullLocA>>), sAbc}

(* poll_time.strftime('%Y-%m-%dT%H:%M:%SZ'): whole seconds *)
FormatTime(ticks) == [t |-> "str", sec |-> ticks \div TicksPerSecond]

(* raw[state][feed_type] = data *)
RawAfterOk(r, i, data) == [r EXCEPT ![i] = data]

(* a failure that clears the whole raw[state] mapping *)
RawAfterFailClearsState(r, i) ==
  [j \in FeedIds |-> IF FeedOrder[j].state = FeedOrder[i].state THEN JNull ELSE r[j]]

(* raw[state][feed_type] = None *)
RawAfterFail(r, i) == [r EXCEPT ![i] = JNull]

(* errors.append(f'{state} {feed_type}: {e}') *)
ErrorsAfterFail(errs, i) == Append(errs, FeedOrder[i])

(* raw[state][ft] if isinstance(raw[state].get(ft), list) else [] *)
ListOrEmpty(v) == IF IsList(v) THEN v ELSE JList(<<>>)

StateRows(r, state) ==
  parse_standard(state, ListOrEmpty(r[FeedIdx(state, "static")]),
                 ListOrEmpty(r[FeedIdx(state, "dynamic")]))

(* if raw['Indiana']['static']: *)
IndianaGuard(static, dynamic) == PyTruthy(static)

IndianaRows(r) ==
  LET static == r[FeedIdx("Indiana", "static")]
      dynamic == r[FeedIdx("Indiana", "dynamic")]
  IN IF IndianaGuard(static, dynamic) THEN parse_indiana(static, dynamic)
     ELSE [ok |-> TRUE, rows |-> <<>>]

(* lines 153-159: ok = FALSE when one of the normalizer calls raises *)
ParseAll(r) ==
  LET il == StateRows(r, StandardStates[1])
      ky == StateRows(r, StandardStates[2])
      mn == StateRows(r, StandardStates[3])
      ind == IndianaRows(r)
  IN [ok |-> il.ok /\ ky.ok /\ mn.ok /\ ind.ok,
      rows |-> IF ~il.ok THEN <<>>
               ELSE IF ~ky.ok THEN il.rows
               ELSE IF ~mn.ok THEN il.rows \o ky.rows
               ELSE il.rows \o ky.rows \o mn.rows \o ind.rows]

(* a timestamp taken again when the rows are stamped *)
PollStampFresh(captured, now) == FormatTime(now)

(* the value assigned to row['poll_utc'] *)
PollStamp(captured, now) == captured

(* row['poll_utc'] = poll_str *)
StampRow(row, ts) ==
  [k \in DOMAIN row \cup {"poll_utc"} |-> IF k = "poll_utc" THEN ts ELSE row[k]]

StampRows(rows, ts) == [i \in 1..Len(rows) |-> StampRow(rows[i], ts)]

(* the empty-batch test left out *)
NoRowsNeverTrue(rows) == FALSE

(* if not all_rows: *)
NoRows(rows) == rows = <<>>

(* sys.exit(0) whatever the error list holds *)
NoRowsExitAlwaysZero(errs) == "success"

(* sys.exit(1 if errors else 0) *)
NoRowsExit(errs) == IF errs # <<>> THEN "failure" ELSE "success"

(* lines 175-191 *)
BqRow(r) ==
  [poll_utc |-> r["poll_utc"],
   state |-> Get(r, "state", ""),
   site_id |-> Get(r, "site_id", EmptyStr),
   name |-> Get(r, "name", EmptyStr),
   highway |-> Get(r, "highway", EmptyStr),
   direction |-> Get(r, "direction", EmptyStr),
   latitude |-> Get(r, "latitude", JNull),
   longitude |-> Get(r, "longitude", JNull),
   capacity |-> Get(r, "capacity", JNull),
   available_spaces |-> Get(r, "available_spaces", JNull),
   trend |-> Get(r, "trend", EmptyStr),
   is_open |-> Get(r, "is_open", EmptyStr),
   trust_data |-> Get(r, "trust_data", EmptyStr),
   source_timestamp |-> Get(r, "source_timestamp", EmptyStr)]

BqRows(rows) == [i \in 1..Len(rows) |-> BqRow(rows[i])]

(* what insert_rows_json can return: no errors, or row-level errors *)
SinkReplies == {<<>>, <<"row error">>}

(* if bq_errors: sys.exit(1) *)
InsertExit(errs) == IF errs # <<>> THEN "failure" ELSE "success"

NormIdle ==
  /\ n_pc = "off" /\ n_kind = "none" /\ n_static = JNull /\ n_dynamic = JNull
  /\ n_result = [ok |-> TRUE, rows |-> <<>>]

Init ==
  /\ pc = "start"
  /\ clock \in 0..1
  /\ poll_str = JNull
  /\ feed_idx = 1
  /\ raw = [i \in FeedIds |-> Unset]
  /\ errors = <<>>
  /\ fetched = [i \in FeedIds |-> 0]
  /\ served = [i \in FeedIds |-> Unset]
  /\ all_rows = <<>>
  /\ sink_calls = 0
  /\ sink_batch = <<>>
  /\ bq_errors = <<>>
  /\ exit_status = "none"
  /\ raised = FALSE
  /\ NormIdle

(* wall-clock time passes while the run is in progress *)
Tick ==
  /\ pc # "done"
  /\ clock < MaxClock
  /\ clock' = clock + 1
  /\ UNCHANGED <<pc, poll_str, feed_idx, raw, errors, fetched, served, all_rows,
                 sink_calls, sink_batch, bq_errors, exit_status, raised>>
  /\ UNCHANGED normVars

(* lines 132-138 *)
Start ==
  /\ pc = "start"
  /\ poll_str' = FormatTime(clock)
  /\ pc' = "fetch"
  /\ UNCHANGED <<clock, feed_idx, raw, errors, fetched, served, all_rows,
                 sink_calls, sink_batch, bq_errors, exit_status, raised>>
  /\ UNCHANGED normVars

AfterFetch ==
  /\ feed_idx' = feed_idx + 1
  /\ pc' = IF feed_idx = NumFeeds THEN "parse" ELSE "fetch"
  /\ fetched' = [fetched EXCEPT ![feed_idx] = @ + 1]
  /\ UNCHANGED <<clock, poll_str, all_rows, sink_calls, sink_batch, bq_errors,
                 exit_status, raised>>
  /\ UNCHANGED normVars

(* lines 143-146: fetch_json returns *)
FetchOk ==
  /\ pc = "fetch"
  /\ \E data \in Payloads(feed_idx) :
       /\ served' = [served EXCEPT ![feed_idx] = data]
       /\ raw' = RawAfterOk(raw, feed_idx, data)
  /\ UNCHANGED errors
  /\ AfterFetch

(* lines 147-150: fetch_json raises *)
FetchFail ==
  /\ pc = "fetch"
  /\ served' = [served EXCEPT ![feed_idx] = FetchFailed]
  /\ raw' = RawAfterFail(raw, feed_idx)
  /\ errors' = ErrorsAfterFail(errors, feed_idx)
  /\ AfterFetch

(* lines 153-159; a normalizer that raises ends the run with a traceback *)
Parse ==
  /\ pc = "parse"
  /\ LET res == ParseAll(raw)
     IN /\ all_rows' = res.rows
        /\ raised' = ~res.ok
        /\ pc' = IF res.ok THEN "stamp" ELSE "done"
        /\ exit_status' = IF res.ok THEN exit_status ELSE "failure"
  /\ UNCHANGED <<clock, poll_str, feed_idx, raw, errors, fetched, served,
                 sink_calls, sink_batch, bq_errors>>
  /\ UNCHANGED normVars

(* lines 162-163 *)
Stamp ==
  /\ pc = "stamp"
  /\ all_rows' = StampRows(all_rows, PollStamp(poll_str, clock))
  /\ pc' = "check"
  /\ UNCHANGED <<clock, poll_str, feed_idx, raw, errors, fetched, served,
                 sink_calls, sink_batch, bq_errors, exit_status, raised>>
  /\ UNCHANGED normVars

(* lines 165-169 *)
Check ==
  /\ pc = "check"
  /\ IF NoRows(all_rows)
     THEN pc' = "done" /\ exit_status' = NoRowsExit(errors)
     ELSE pc' = "insert" /\ UNCHANGED exit_status
  /\ UNCHANGED <<clock, poll_str, feed_idx, raw, errors, fetched, served,
                 all_rows, sink_calls, sink_batch, bq_errors, raised>>
  /\ UNCHANGED normVars

(* lines 172-200 *)
Insert ==
  /\ pc = "insert"
  /\ sink_batch' = BqRows(all_rows)
  /\ sink_calls' = sink_calls + 1
  /\ \E reply \in SinkReplies :
       /\ bq_errors' = reply
       /\ exit_status' = InsertExit(reply)
  /\ pc' = "done"
  /\ UNCHANGED <<clock, poll_str, feed_idx, raw, errors, fetched, served,
                 all_rows, raised>>
  /\ UNCHANGED normVars

Next == Tick \/ Start \/ FetchOk \/ FetchFail \/ Parse \/ Stamp \/ Check \/ Insert

Spec == Init /\ [][Next]_vars

---------------------------------------------------------------------------
(* Properties                                                              *)

(* the feeds whose fetch raised, in fetch order *)
FailedFeeds ==
  LET F[i \in 0..NumFeeds] ==
        IF i = 0 THEN <<>>
        ELSE IF served[i] = FetchFailed THEN Append(F[i - 1], FeedOrder[i])
        ELSE F[i - 1]
  IN F[NumFeeds]

RowsOfState(rows, state) == SelectSeq(rows, LAMBDA r : r.state = state)

InSeq(x, seq) == \E j \in 1..Len(seq) : seq[j] = x

(* C1: in one run each of the 8 feeds is fetched exactly once whatever the
   other fetches did; a failed fetch adds exactly one entry to the error
   list, stores None for that feed, and the loop goes on; a failure neither
   aborts the run nor changes the payload stored for another feed. *)
C1_EachFeedFetchedOnceFailuresIsolated ==
  /\ pc = "start" => feed_idx = 1
  /\ pc = "fetch" => feed_idx \in FeedIds
  /\ pc \notin {"start", "fetch"} => feed_idx = NumFeeds + 1
  /\ \A i \in FeedIds :
       /\ fetched[i] = IF i < feed_idx THEN 1 ELSE 0
       /\ i < feed_idx =>
            /\ served[i] # Unset
            /\ raw[i] = IF served[i] = FetchFailed THEN JNull ELSE served[i]
       /\ i >= feed_idx => raw[i] = Unset
  /\ errors = FailedFeeds

C1_Witness ==
  /\ pc = "done"
  /\ served[1] # FetchFailed /\ raw[1] = JList(<<DynGoodA, DynNullOpenB>>)
  /\ served[2] = FetchFailed /\ raw[2] = JNull
  /\ served[3] = FetchFailed
  /\ served[4] # FetchFailed /\ raw[4] = served[4]
  /\ Len(errors) = 2

(* C2: a run ends in failure only when (1) zero rows were produced and a feed
   error is on record, or (2) the sink reported row-level errors; every other
   run, whatever the fetch outcomes and payload contents, ends in success. *)
C2_FailureOnlyNoDataOrSinkReject ==
  pc = "done" =>
    (exit_status = "failure"
       <=> \/ all_rows = <<>> /\ errors # <<>>
           \/ bq_errors # <<>>)

(* the sources whose payloads make their normalizer raise *)
MalformedSources ==
  {st \in {"Illinois", "Kentucky", "Minnesota"} : ~StateRows(raw, st).ok}
    \cup (IF IndianaRows(raw).ok THEN {} ELSE {"Indiana"})

SourceRows(st) ==
  IF st = "Indiana" THEN IndianaRows(raw).rows ELSE StateRows(raw, st).rows

(* C3: when the malformed data comes from the feeds of a single source, the
   run does not abort and every row of every other source is normalized and
   is in the batch handed to the sink. *)
C3_MalformedSourceDoesNotAbort ==
  (pc = "done" /\ Cardinality(MalformedSources) = 1) =>
    /\ ~raised
    /\ \A st \in {"Illinois", "Indiana", "Kentucky", "Minnesota"} \ MalformedSources :
         \A k \in 1..Len(SourceRows(st)) :
            InSeq(BqRow(StampRow(SourceRows(st)[k], poll_str)), sink_batch)

(* C4: if every one of the 8 fetches fails, the run produces zero rows, never
   calls the sink and ends with a failure status. *)
C4_AllFetchesFail ==
  (\A i \in FeedIds : served[i] = FetchFailed) =>
    /\ all_rows = <<>>
    /\ sink_calls = 0 /\ sink_batch = <<>>
    /\ pc \notin {"insert"}
    /\ pc = "done" => exit_status = "failure" /\ ~raised

C4_Witness ==
  /\ pc = "done"
  /\ \A i \in FeedIds : served[i] = FetchFailed
  /\ Len(errors) = NumFeeds
  /\ exit_status = "failure"

(* C5: in every row of either normalizer is_open is one of exactly three
   strings, "True", "False" or "", for every value the dynamic record's open
   field can carry. *)
C5_IsOpenTriState ==
  n_pc = "done" =>
    \A k \in 1..Len(n_result.rows) :
       n_result.rows[k].is_open \in
         {JStr(<<"T", "r", "u", "e">>), JStr(<<"F", "a", "l", "s", "e">>), EmptyStr}

(* C6: the poll timestamp is captured exactly once per run, before the first
   fetch, and every row of the batch handed to the sink carries that same
   non-null value, however much time passes during the run. *)
C6_PollTimestampOnceForAllRows ==
  /\ [](/\ (pc = "start") <=> (poll_str = JNull)
        /\ pc = "start" => \A i \in FeedIds : fetched[i] = 0
        /\ pc \in {"check", "insert", "done"} /\ ~raised =>
             \A k \in 1..Len(all_rows) :
                "poll_utc" \in DOMAIN all_rows[k] /\ all_rows[k].poll_utc = poll_str
        /\ \A k \in 1..Len(sink_batch) :
             sink_batch[k].poll_utc = poll_str /\ poll_str # JNull)
  /\ [][poll_str' # poll_str => pc = "start" /\ poll_str' = FormatTime(clock)]_vars

C6_Witness ==
  /\ sink_calls = 1
  /\ Len(sink_batch) >= 3
  /\ FormatTime(clock) # poll_str
  /\ \A k \in 1..Len(sink_batch) : sink_batch[k].poll_utc = poll_str

(* C7: in every row of either normalizer latitude and longitude are a number
   or null and capacity and available_spaces are an integer or null; a
   malformed or non-numeric source value yields null, never the raw value. *)
C7_NumericFieldsValidOrNull ==
  n_pc = "done" =>
    \A k \in 1..Len(n_result.rows) :
       /\ n_result.rows[k].latitude.t \in {"null", "float", "int"}
       /\ n_result.rows[k].longitude.t \in {"null", "float", "int"}
       /\ n_result.rows[k].capacity.t \in {"null", "int"}
       /\ n_result.rows[k].available_spaces.t \in {"null", "int"}

(* C8: for every static record given to the standard-format normalizer whose
   site identifier matches no dynamic record (the dynamic list may be empty
   or absent), the normalizer emits a row for that site with
   available_spaces = null, is_open = "" and trust_data = "".  Stated for
   lists all of whose records are mappings. *)
C8_UnmatchedStaticSiteStillEmitsRow ==
  (/\ n_pc = "done" /\ n_kind = "standard"
   /\ \A i \in 1..Len(OrEmpty(n_static)) : IsDict(OrEmpty(n_static)[i])
   /\ \A j \in 1..Len(OrEmpty(n_dynamic)) : IsDict(OrEmpty(n_dynamic)[j])) =>
    \A i \in 1..Len(OrEmpty(n_static)) :
       (\A j \in 1..Len(OrEmpty(n_dynamic)) :
           ~PyKeyEq(SiteKey(OrEmpty(n_dynamic)[j]), SiteKey(OrEmpty(n_static)[i])))
       => /\ n_result.ok
          /\ Len(n_result.rows) = Len(OrEmpty(n_static))
          /\ n_result.rows[i].site_id = SiteKey(OrEmpty(n_static)[i])
          /\ n_result.rows[i].available_spaces = JNull
          /\ n_result.rows[i].is_open = EmptyStr
          /\ n_result.rows[i].trust_data = EmptyStr

(* the rows the static payload of Indiana alone determines *)
IndianaExpected ==
  IF served[4] = FetchFailed THEN <<>> ELSE parse_indiana(served[4], JNull).rows

(* C9: the rows of Indiana depend on its static payload only: none when the
   static fetch failed, even if the dynamic fetch succeeded, and otherwise
   the same rows whether the dynamic fetch succeeded or failed and whatever
   the dynamic payload holds. *)
C9_IndianaRowsFromStaticOnly ==
  /\ pc = "stamp" => RowsOfState(all_rows, "Indiana") = IndianaExpected
  /\ pc \in {"check", "insert", "done"} /\ ~raised =>
       RowsOfState(all_rows, "Indiana") = StampRows(IndianaExpected, poll_str)
  /\ sink_calls = 1 =>
       RowsOfState(sink_batch, "Indiana") = BqRows(StampRows(IndianaExpected, poll_str))
  /\ served[4] = FetchFailed => RowsOfState(all_rows, "Indiana") = <<>>

C9_Witness ==
  /\ sink_calls = 1
  /\ served[3] = Collection(JList(<<FeatBadCoords>>))
  /\ served[4] = Collection(JList(<<FeatGood, FeatClosed>>))
  /\ Len(RowsOfState(sink_batch, "Indiana")) = 2

(* C10: the sink is called at most once per run, only after all 8 fetches and
   all normalization, never with an empty batch, and with every row produced
   in the run; if the call reports a row-level error the run ends in failure
   and the sink is not called again. *)
C10_SingleBulkInsertAfterAllWork ==
  /\ sink_calls <= 1
  /\ sink_calls = 0 => sink_batch = <<>> /\ bq_errors = <<>>
  /\ sink_calls = 1 =>
       /\ pc = "done"
       /\ \A i \in FeedIds : fetched[i] = 1
       /\ ParseAll(raw).ok
       /\ sink_batch # <<>>
       /\ Len(sink_batch) = Len(SourceRows("Illinois")) + Len(SourceRows("Kentucky"))
                              + Len(SourceRows("Minnesota")) + Len(SourceRows("Indiana"))
       /\ sink_batch = BqRows(all_rows)
       /\ \A st \in {"Illinois", "Indiana", "Kentucky", "Minnesota"} :
            \A k \in 1..Len(SourceRows(st)) :
               InSeq(BqRow(StampRow(SourceRows(st)[k], poll_str)), sink_batch)
       /\ bq_errors # <<>> => exit_status = "failure"
       /\ bq_errors = <<>> => exit_status = "success"

C10_Witness ==
  /\ sink_calls = 1
  /\ bq_errors # <<>>
  /\ exit_status = "failure"
  /\ Len(RowsOfState(sink_batch, "Illinois")) = 2
  /\ Len(RowsOfState(sink_batch, "Indiana")) = 2

====
